---- MODULE Spec2Model ----
(***************************************************************************)
(* The cart state manager of the OctoCAT Supply frontend                   *)
(* (frontend/src/context/CartContext.tsx): the CartProvider component, its *)
(* two effects (load on mount, save on change of items), the derived       *)
(* totals and the four mutation entry points, run by React: a handler call *)
(* queues a functional state update, the next render applies the queued    *)
(* updates in order and recomputes the derived values, and the effects of  *)
(* that render run before the next event is handled.                       *)
(*                                                                         *)
(* Representation.                                                         *)
(*  - A JavaScript object is a function from its keys to values. The       *)
(*    optional fields imageUrl and discount hold <<>> for undefined and    *)
(*    <<v>> for the value v; a key that is absent reads as undefined.      *)
(*  - A discount is held in percent (25 stands for 0.25); the prices of    *)
(*    discounted products are multiples of 100, so price * (1 - discount)  *)
(*    is exact here as it is in floating point for these values.           *)
(*  - A string held by localStorage is the empty string, a text that       *)
(*    JSON.parse rejects, or a JSON text, given by the JSON value it       *)
(*    denotes. JSON.stringify leaves out the keys whose value is           *)
(*    undefined, JSON.parse builds objects that have only the keys of the  *)
(*    text.                                                                *)
(***************************************************************************)
EXTENDS Integers, Sequences, FiniteSets, TLC

\* ---------------------------------------------------------------- bounds
\* Product ids offered to the handlers are 1..MaxProductId.
MaxProductId == 2
\* Handler calls that would take a line's quantity above MaxQty, or below the
\* least quantity a handler is passed, are not explored.
MaxQty == 2
\* At most MaxBatch handler calls are made in one event before React renders.
MaxBatch == 2

\* ------------------------------------------------------ program constants
CartKey == "octocat-cart"
FreeShippingThreshold == 100
ShippingFee == 25

\* A second localStorage key, owned by another part of the application.
OtherKey == "other-key"
StorageKeys == {CartKey, OtherKey}

\* ------------------------------------------------------------- JS values
Undefined == <<>>
Some(v) == <<v>>

RequiredFields == {"productId", "name", "price", "quantity"}
OptionalFields == {"imageUrl", "discount"}
ItemFields == RequiredFields \cup OptionalFields

\* item[k] of JavaScript for an optional field k: undefined when the key is absent.
Get(item, k) == IF k \in DOMAIN item THEN item[k] ELSE Undefined

\* The keys of an object whose value is not undefined.
DefinedKeys(item) ==
    {k \in DOMAIN item : ~(k \in OptionalFields /\ item[k] = Undefined)}

\* { ...item, quantity: q }
WithQuantity(item, q) ==
    [k \in (DOMAIN item) \cup {"quantity"} |-> IF k = "quantity" THEN q ELSE item[k]]

\* ------------------------------------------------------ localStorage texts
NoEntry == [t |-> "absent"]             \* getItem returns null
EmptyText == [t |-> "empty"]            \* the string ''
InvalidText == [t |-> "invalid-json"]   \* a string JSON.parse rejects
JsonText(v) == [t |-> "json", v |-> v]

JNull == [j |-> "null"]
JNumber(n) == [j |-> "num", n |-> n]
JObject(o) == [j |-> "obj", o |-> o]
JArray(a) == [j |-> "arr", a |-> a]

\* JSON.stringify of one item: the keys with a defined value, the optional
\* fields unwrapped.
StringifyItem(item) ==
    JObject([k \in DefinedKeys(item) |->
                IF k \in OptionalFields THEN item[k][1] ELSE item[k]])

\* JSON.stringify(items)
Stringify(list) ==
    JsonText(JArray([i \in 1..Len(list) |-> StringifyItem(list[i])]))

\* The object JSON.parse builds from a JSON object.
ParseObject(o) ==
    [k \in DOMAIN o |-> IF k \in OptionalFields THEN Some(o[k]) ELSE o[k]]

ParseValue(v) ==
    IF v.j = "arr"
    THEN JArray([i \in 1..Len(v.a) |->
                    IF v.a[i].j = "obj" THEN JObject(ParseObject(v.a[i].o)) ELSE v.a[i]])
    ELSE IF v.j = "obj" THEN JObject(ParseObject(v.o))
    ELSE v

\* JSON.parse(text): the value, or a SyntaxError.
JSONParse(text) ==
    IF text.t = "json" THEN [ok |-> TRUE, value |-> ParseValue(text.v)]
    ELSE [ok |-> FALSE, value |-> JNull]

\* if (savedCart): null and '' are falsy.
Truthy(text) == text.t \notin {"absent", "empty"}

\* ---------------------------------------------------------- derived values
\* Mutant of SumQuantity: every line counts once, whatever its quantity.
SumQuantityCountsLines(list) == Len(list)

RECURSIVE SumQuantity(_)
\* items.reduce((sum, item) => sum + item.quantity, 0)
SumQuantity(list) ==
    IF list = <<>> THEN 0
    ELSE list[1].quantity + SumQuantity(Tail(list))

\* Mutant of ItemPrice: the discount is not applied.
ItemPriceNoDiscount(item) == item.price

\* item.discount ? item.price * (1 - item.discount) : item.price
\* (undefined and 0 are falsy).
ItemPrice(item) ==
    LET d == Get(item, "discount") IN
    IF d # Undefined /\ d[1] # 0
    THEN (item.price * (100 - d[1])) \div 100
    ELSE item.price

RECURSIVE SumPrice(_)
\* items.reduce((sum, item) => sum + itemPrice * item.quantity, 0)
SumPrice(list) ==
    IF list = <<>> THEN 0
    ELSE ItemPrice(list[1]) * list[1].quantity + SumPrice(Tail(list))

\* Mutant of ShippingOf: an empty cart ships free.
ShippingOfFreeEmpty(sub) ==
    IF sub >= FreeShippingThreshold \/ sub = 0 THEN 0 ELSE ShippingFee

\* Mutant of ShippingOf: the threshold is exclusive.
ShippingOfStrict(sub) == IF sub > FreeShippingThreshold THEN 0 ELSE ShippingFee

\* subtotal >= 100 ? 0 : 25
ShippingOf(sub) == IF sub >= FreeShippingThreshold THEN 0 ELSE ShippingFee

\* ------------------------------------------------------- state updaters
HasProduct(list, id) == \E i \in 1..Len(list) : list[i].productId = id

\* The new line item built by addItem.
NewItem(product, quantity) ==
    [productId |-> product.productId,
     name |-> product.name,
     price |-> product.price,
     quantity |-> quantity,
     imageUrl |-> product.imgName,
     discount |-> product.discount]

\* Mutants of addItemUpdater: the existing line is rebuilt from the descriptor
\* passed; the new line is put first.
addItemUpdaterRefresh(prevItems, product, quantity) ==
    IF HasProduct(prevItems, product.productId)
    THEN [i \in 1..Len(prevItems) |->
            IF prevItems[i].productId = product.productId
            THEN NewItem(product, prevItems[i].quantity + quantity)
            ELSE prevItems[i]]
    ELSE Append(prevItems, NewItem(product, quantity))

addItemUpdaterPrepend(prevItems, product, quantity) ==
    IF HasProduct(prevItems, product.productId)
    THEN [i \in 1..Len(prevItems) |->
            IF prevItems[i].productId = product.productId
            THEN WithQuantity(prevItems[i], prevItems[i].quantity + quantity)
            ELSE prevItems[i]]
    ELSE <<NewItem(product, quantity)>> \o prevItems

\* Mutant of addItemUpdater: a line whose quantity would not be positive is
\* not kept.
addItemUpdaterPositive(prevItems, product, quantity) ==
    IF HasProduct(prevItems, product.productId)
    THEN SelectSeq([i \in 1..Len(prevItems) |->
                     IF prevItems[i].productId = product.productId
                     THEN WithQuantity(prevItems[i], prevItems[i].quantity + quantity)
                     ELSE prevItems[i]],
                   LAMBDA item : item.productId # product.productId \/ item.quantity > 0)
    ELSE IF quantity > 0 THEN Append(prevItems, NewItem(product, quantity)) ELSE prevItems

\* The updater addItem passes to setItems.
addItemUpdater(prevItems, product, quantity) ==
    IF HasProduct(prevItems, product.productId)
    THEN [i \in 1..Len(prevItems) |->
            IF prevItems[i].productId = product.productId
            THEN WithQuantity(prevItems[i], prevItems[i].quantity + quantity)
            ELSE prevItems[i]]
    ELSE Append(prevItems, NewItem(product, quantity))

\* Mutant of removeItemUpdater: the filter keeps the lines it should drop.
removeItemUpdaterKeep(prevItems, productId) ==
    SelectSeq(prevItems, LAMBDA item : item.productId = productId)

RECURSIVE removeItemUpdater(_, _)
\* prevItems.filter(item => item.productId !== productId)
removeItemUpdater(prevItems, productId) ==
    IF prevItems = <<>> THEN <<>>
    ELSE IF prevItems[1].productId # productId
         THEN <<prevItems[1]>> \o removeItemUpdater(Tail(prevItems), productId)
         ELSE removeItemUpdater(Tail(prevItems), productId)

\* Mutant of updateQuantityUpdater: the quantity is added, not replaced.
updateQuantityUpdaterAdd(prevItems, productId, quantity) ==
    [i \in 1..Len(prevItems) |->
        IF prevItems[i].productId = productId
        THEN WithQuantity(prevItems[i], prevItems[i].quantity + quantity)
        ELSE prevItems[i]]

\* Mutant of updateQuantityUpdater: the map sets the quantity of every line.
updateQuantityUpdaterAll(prevItems, productId, quantity) ==
    [i \in 1..Len(prevItems) |-> WithQuantity(prevItems[i], quantity)]

\* The updater updateQuantity passes to setItems when quantity > 0.
updateQuantityUpdater(prevItems, productId, quantity) ==
    [i \in 1..Len(prevItems) |->
        IF prevItems[i].productId = productId
        THEN WithQuantity(prevItems[i], quantity)
        ELSE prevItems[i]]

\* The items state as a JavaScript value, and back: the handlers' updaters
\* and the component body can use a value only if it is an array
\* (prevItems.find, items.reduce) whose elements are objects (item.productId,
\* item.quantity); on any other value they raise a TypeError.
ItemsValue(list) == JArray([i \in 1..Len(list) |-> JObject(list[i])])
IsItems(v) == v.j = "arr" /\ \A i \in 1..Len(v.a) : v.a[i].j = "obj"
ItemsOf(v) == [i \in 1..Len(v.a) |-> v.a[i].o]
JThrown == [j |-> "thrown"]

\* One queued update applied to the state value so far.
ApplyUpdate(cur, u) ==
    IF cur = JThrown THEN JThrown
    ELSE IF u.fn = "set" THEN u.value
    ELSE IF ~IsItems(cur) THEN JThrown
    ELSE IF u.fn = "addItem"
         THEN ItemsValue(addItemUpdater(ItemsOf(cur), u.product, u.quantity))
    ELSE IF u.fn = "removeItem"
         THEN ItemsValue(removeItemUpdater(ItemsOf(cur), u.productId))
    ELSE ItemsValue(updateQuantityUpdater(ItemsOf(cur), u.productId, u.quantity))

\* Mutant of ApplyQueue: every update is computed from the state the handler
\* saw when it ran, so the last one queued wins.
ApplyQueueStale(cur, q) ==
    IF q = <<>> THEN cur ELSE ApplyUpdate(cur, q[Len(q)])

RECURSIVE ApplyQueue(_, _)
\* React applies the queued updates in the order they were queued.
ApplyQueue(cur, q) ==
    IF q = <<>> THEN cur
    ELSE ApplyQueue(ApplyUpdate(cur, Head(q)), Tail(q))

\* ------------------------------------------------------------ input sets
ProductIds == 1..MaxProductId

\* The descriptor the product list passes to addItem for each product, and
\* the descriptor of product 1 once the catalog has changed its name, price,
\* image and discount.
Listed(id) ==
    [productId |-> id, name |-> "Cat Feeder", price |-> 50,
     imgName |-> Undefined, discount |-> Undefined]
Relisted ==
    [productId |-> 1, name |-> "Smart Feeder", price |-> 100,
     imgName |-> Some("feeder.jpg"), discount |-> Some(25)]
Products == {Listed(id) : id \in ProductIds} \cup {Relisted}

\* Quantities passed to addItem and updateQuantity.
Quantities == {-1, 0, 1, 2}
LeastQuantity == CHOOSE q \in Quantities : \A r \in Quantities : q <= r

\* Snapshots another writer may have left under the cart's key.
SavedItem(id, q) == [productId |-> id, name |-> "Saved Product", price |-> 30, quantity |-> q]
ExternalLists ==
    { <<>>,
      <<SavedItem(1, 2)>>,
      <<SavedItem(1, 1), SavedItem(1, 2)>>,
      <<SavedItem(2, 0)>>,
      <<SavedItem(1, -1), SavedItem(2, 1)>>,
      <<[SavedItem(2, 1) EXCEPT !.name = "SmartFeeder One"] @@ [sku |-> "SF001"]>>,
      <<SavedItem(1, 0), SavedItem(1, -1) @@ [sku |-> "SF001"]>> }

\* Stored strings that are not the serialization of a list of line items.
MalformedTexts ==
    { EmptyText, InvalidText,
      JsonText(JNull), JsonText(JNumber(5)),
      JsonText(JObject([productId |-> 1])),
      JsonText(JArray(<<JNull>>)) }

\* ------------------------------------------------------------------ state
VARIABLES
    items,          \* the items state of the last render
    totalItems,     \* the derived values of the last render
    subtotal,
    shipping,
    total,
    queue,          \* state updates queued by setItems, not yet rendered
    storage,        \* localStorage: key -> stored string or NoEntry
    pc,             \* what React runs next
    mounting,       \* no handler has been called since the component mounted
    savedCart,      \* what the load effect's getItem returned (while mounting)
    removeCalled,   \* the load effect called localStorage.removeItem (while mounting)
    errorLogged,    \* the load effect called console.error (while mounting)
    snapshot,       \* history: the list whose serialization the storage held at mount
    prevItems,      \* history: items before the render whose effects are pending
    applied,        \* history: the updates that render applied
    addLog,         \* history: the addItem calls made since the cart was last empty
    consumer,       \* the outcome of useCart() in the consumer being rendered
    replay          \* StrictMode still has to run the mount effects a second time

vars == <<items, totalItems, subtotal, shipping, total, queue, storage, pc,
          mounting, savedCart, removeCalled, errorLogged, snapshot, prevItems, applied,
          addLog, consumer, replay>>

derived == <<totalItems, subtotal, shipping, total>>
mountLog == <<mounting, savedCart, removeCalled, errorLogged, snapshot>>
history == <<prevItems, applied>>

NoSnapshot == [valid |-> FALSE, list |-> <<>>]

\* addLog: the product ids passed to addItem and the sum of the quantities
\* passed, for as long as addItem is the only entry point called since the
\* cart was empty with nothing pending.
NotCounting == [on |-> FALSE, ids |-> {}, sum |-> 0]
CountingFrom0 == [on |-> TRUE, ids |-> {}, sum |-> 0]
Counted(log, u) ==
    IF log.on /\ u.call = "addItem"
    THEN [on |-> TRUE, ids |-> log.ids \cup {u.product.productId}, sum |-> log.sum + u.quantity]
    ELSE NotCounting

\* consumer: no consumer is being rendered.
NotCalled == [called |-> FALSE]
SnapshotOf(list) == [valid |-> TRUE, list |-> list]

\* The component body run on a list: useState's value and the derived values.
Rendered(list) ==
    /\ items' = list
    /\ totalItems' = SumQuantity(list)
    /\ subtotal' = SumPrice(list)
    /\ shipping' = ShippingOf(SumPrice(list))
    /\ total' = SumPrice(list) + ShippingOf(SumPrice(list))

\* Mutant of Mounted: useState starts from a sample line instead of [].
MountedSeeded ==
    /\ items = <<NewItem(Listed(1), 1)>>
    /\ totalItems = 1
    /\ subtotal = 50
    /\ shipping = ShippingFee
    /\ total = 50 + ShippingFee
    /\ queue = <<>>
    /\ pc = "load"
    /\ mounting = TRUE
    /\ savedCart = NoEntry
    /\ removeCalled = FALSE
    /\ errorLogged = FALSE
    /\ prevItems = <<>>
    /\ applied = <<>>
    /\ addLog = NotCounting
    /\ consumer = NotCalled

\* The first render of a mounted CartProvider: useState([]), effects pending.
Mounted ==
    /\ items = <<>>
    /\ totalItems = 0
    /\ subtotal = 0
    /\ shipping = ShippingFee
    /\ total = ShippingFee
    /\ queue = <<>>
    /\ pc = "load"
    /\ mounting = TRUE
    /\ savedCart = NoEntry
    /\ removeCalled = FALSE
    /\ errorLogged = FALSE
    /\ prevItems = <<>>
    /\ applied = <<>>
    /\ addLog = NotCounting
    /\ consumer = NotCalled

Init ==
    /\ Mounted
    /\ \/ /\ storage = [k \in StorageKeys |-> IF k = CartKey THEN NoEntry ELSE JsonText(JNull)]
          /\ snapshot = NoSnapshot
       \/ \E text \in MalformedTexts :
          /\ storage = [k \in StorageKeys |-> IF k = CartKey THEN text ELSE JsonText(JNull)]
          /\ snapshot = NoSnapshot
       \/ \E list \in ExternalLists :
          /\ storage = [k \in StorageKeys |-> IF k = CartKey THEN Stringify(list) ELSE JsonText(JNull)]
          /\ snapshot = SnapshotOf(list)
    /\ replay = FALSE

\* ---------------------------------------------------------------- effects
\* Mutant of LoadEffect: the parsed snapshot is not passed to setItems.
LoadEffectNoAdopt ==
    /\ pc = "load"
    /\ savedCart' = storage[CartKey]
    /\ IF Truthy(storage[CartKey]) /\ ~JSONParse(storage[CartKey]).ok
       THEN /\ errorLogged' = TRUE
            /\ removeCalled' = TRUE
            /\ storage' = [storage EXCEPT ![CartKey] = NoEntry]
       ELSE UNCHANGED <<storage, removeCalled, errorLogged>>
    /\ pc' = "save"
    /\ UNCHANGED <<items, derived, queue, mounting, snapshot, history, addLog, consumer>>
    /\ UNCHANGED replay

\* Mutant of LoadEffect: lines whose quantity is not positive are dropped
\* from the parsed snapshot before it is passed to setItems.
LoadEffectValidated ==
    /\ pc = "load"
    /\ savedCart' = storage[CartKey]
    /\ IF Truthy(storage[CartKey])
       THEN IF JSONParse(storage[CartKey]).ok
            THEN /\ LET parsed == JSONParse(storage[CartKey]).value IN
                    queue' = Append(queue, [fn |-> "set", call |-> "load",
                                 value |-> IF IsItems(parsed)
                                           THEN ItemsValue(SelectSeq(ItemsOf(parsed),
                                                    LAMBDA item : item.quantity > 0))
                                           ELSE parsed])
                 /\ UNCHANGED <<storage, removeCalled, errorLogged>>
            ELSE /\ errorLogged' = TRUE
                 /\ removeCalled' = TRUE
                 /\ storage' = [storage EXCEPT ![CartKey] = NoEntry]
                 /\ UNCHANGED queue
       ELSE UNCHANGED <<queue, storage, removeCalled, errorLogged>>
    /\ pc' = "save"
    /\ UNCHANGED <<items, derived, mounting, snapshot, history, addLog, consumer>>
    /\ UNCHANGED replay

\* The load effect (deps []): runs once after the first render.
LoadEffect ==
    /\ pc = "load"
    /\ savedCart' = storage[CartKey]
    /\ IF Truthy(storage[CartKey])
       THEN IF JSONParse(storage[CartKey]).ok
            THEN /\ queue' = Append(queue, [fn |-> "set", call |-> "load",
                                         value |-> JSONParse(storage[CartKey]).value])
                 /\ UNCHANGED <<storage, removeCalled, errorLogged>>
            ELSE /\ errorLogged' = TRUE
                 /\ removeCalled' = TRUE
                 /\ storage' = [storage EXCEPT ![CartKey] = NoEntry]
                 /\ UNCHANGED queue
       ELSE UNCHANGED <<queue, storage, removeCalled, errorLogged>>
    /\ pc' = "save"
    /\ UNCHANGED <<items, derived, mounting, snapshot, history, addLog, consumer>>
    /\ UNCHANGED replay

\* Mutant of SaveEffect: the effect writes the list its closure captured one
\* render earlier.
SaveEffectStale ==
    /\ pc = "save"
    /\ storage' = [storage EXCEPT ![CartKey] = Stringify(prevItems)]
    /\ pc' = IF queue # <<>> THEN "render" ELSE "idle"
    /\ prevItems' = <<>>
    /\ applied' = <<>>
    /\ addLog' = IF items = <<>> /\ queue = <<>> THEN CountingFrom0 ELSE addLog
    /\ UNCHANGED <<items, derived, queue, mounting, savedCart, removeCalled, errorLogged,
                   snapshot, consumer>>
    /\ UNCHANGED replay

\* Mutant of SaveEffect: an empty list is not written.
SaveEffectSkipEmpty ==
    /\ pc = "save"
    /\ storage' = IF items = <<>> THEN storage
                  ELSE [storage EXCEPT ![CartKey] = Stringify(items)]
    /\ pc' = IF queue # <<>> THEN "render" ELSE "idle"
    /\ prevItems' = <<>>
    /\ applied' = <<>>
    /\ addLog' = IF items = <<>> /\ queue = <<>> THEN CountingFrom0 ELSE addLog
    /\ UNCHANGED <<items, derived, queue, mounting, savedCart, removeCalled, errorLogged,
                   snapshot, consumer>>
    /\ UNCHANGED replay

\* Mutant of SaveEffect: the list is written under every key of the storage.
SaveEffectEveryKey ==
    /\ pc = "save"
    /\ storage' = [k \in StorageKeys |-> Stringify(items)]
    /\ pc' = IF queue # <<>> THEN "render" ELSE "idle"
    /\ prevItems' = <<>>
    /\ applied' = <<>>
    /\ addLog' = IF items = <<>> /\ queue = <<>> THEN CountingFrom0 ELSE addLog
    /\ UNCHANGED <<items, derived, queue, mounting, savedCart, removeCalled, errorLogged,
                   snapshot, consumer>>
    /\ UNCHANGED replay

\* The save effect (deps [items]): runs after every render that changed items.
SaveEffect ==
    /\ pc = "save"
    /\ storage' = [storage EXCEPT ![CartKey] = Stringify(items)]
    /\ pc' = IF queue # <<>> THEN "render" ELSE "idle"
    /\ prevItems' = <<>>
    /\ applied' = <<>>
    /\ addLog' = IF items = <<>> /\ queue = <<>> THEN CountingFrom0 ELSE addLog
    /\ UNCHANGED <<items, derived, queue, mounting, savedCart, removeCalled, errorLogged,
                   snapshot, consumer>>
    /\ UNCHANGED replay

\* ----------------------------------------------------------------- render
\* React re-renders CartProvider: the queued updates are applied in order,
\* the component body recomputes the derived values, and the save effect is
\* scheduled (every update yields a new array). A TypeError raised by an
\* updater or by the component body unmounts the tree.
Render ==
    /\ pc \in {"render", "batch"}
    /\ LET result == ApplyQueue(ItemsValue(items), queue) IN
       IF result # JThrown /\ IsItems(result)
       THEN /\ Rendered(ItemsOf(result))
            /\ pc' = "save"
            /\ prevItems' = items
            /\ applied' = queue
       ELSE /\ pc' = "crashed"
            /\ UNCHANGED <<items, derived, history>>
    /\ queue' = <<>>
    /\ UNCHANGED <<storage, mountLog, addLog, consumer>>
    /\ UNCHANGED replay

\* --------------------------------------------------------------- handlers
\* The state the queued updates will produce at the next render.
Pending == ApplyQueue(ItemsValue(items), queue)

\* The quantities of the lines of product id stay within the explored range
\* once update u is applied as well.
WithinBounds(u, id) ==
    LET after == ApplyUpdate(Pending, u) IN
    IsItems(after) =>
        \A i \in 1..Len(after.a) :
            after.a[i].o.productId = id =>
                /\ after.a[i].o.quantity >= LeastQuantity
                /\ after.a[i].o.quantity <= MaxQty

\* setItems(update), called by a handler: the update is queued for the next
\* render. "call" and the arguments kept with it record which entry point
\* queued it.
SetItems(u) ==
    /\ pc \in {"idle", "batch"}
    /\ queue' = Append(queue, u)
    /\ pc' = "batch"
    /\ mounting' = FALSE
    /\ savedCart' = NoEntry
    /\ removeCalled' = FALSE
    /\ errorLogged' = FALSE
    /\ snapshot' = NoSnapshot
    /\ addLog' = Counted(addLog, u)
    /\ UNCHANGED <<items, derived, storage, history, consumer>>
    /\ UNCHANGED replay

addItem(product, quantity) ==
    LET u == [fn |-> "addItem", call |-> "addItem", product |-> product, quantity |-> quantity] IN
    /\ WithinBounds(u, product.productId)
    /\ SetItems(u)

\* The update removeItem queues; updateQuantity calls removeItem as well.
RemoveUpdate(productId, call, quantity) ==
    [fn |-> "removeItem", call |-> call, productId |-> productId, quantity |-> quantity]

removeItem(productId) ==
    SetItems(RemoveUpdate(productId, "removeItem", 0))

\* Mutant of updateQuantity: the guard is quantity < 0.
updateQuantityStrict(productId, quantity) ==
    IF quantity < 0
    THEN SetItems(RemoveUpdate(productId, "updateQuantity", quantity))
    ELSE LET u == [fn |-> "updateQuantity", call |-> "updateQuantity",
                   productId |-> productId, quantity |-> quantity] IN
         /\ WithinBounds(u, productId)
         /\ SetItems(u)

updateQuantity(productId, quantity) ==
    IF quantity <= 0
    THEN SetItems(RemoveUpdate(productId, "updateQuantity", quantity))
    ELSE LET u == [fn |-> "updateQuantity", call |-> "updateQuantity",
                   productId |-> productId, quantity |-> quantity] IN
         /\ WithinBounds(u, productId)
         /\ SetItems(u)

\* Mutant of clearCart: the handler passes the items of its closure.
clearCartStale ==
    SetItems([fn |-> "set", call |-> "clearCart", value |-> ItemsValue(items)])

clearCart ==
    SetItems([fn |-> "set", call |-> "clearCart", value |-> JArray(<<>>)])

\* The page is loaded again: a new CartProvider mounts on the same storage.
Reload ==
    /\ pc \in {"idle", "crashed"}
    /\ Rendered(<<>>)
    /\ queue' = <<>>
    /\ pc' = "load"
    /\ mounting' = TRUE
    /\ savedCart' = NoEntry
    /\ removeCalled' = FALSE
    /\ errorLogged' = FALSE
    /\ snapshot' = IF pc = "idle" THEN SnapshotOf(items) ELSE NoSnapshot
    /\ prevItems' = <<>>
    /\ applied' = <<>>
    /\ addLog' = NotCounting
    /\ UNCHANGED <<storage, consumer>>
    /\ UNCHANGED replay

\* ---------------------------------------------------------------- useCart
\* What useContext(CartContext) returns: the value of the enclosing
\* CartProvider, or the default null of createContext.
ContextValue(inProvider) ==
    IF inProvider
    THEN [provided |-> TRUE, items |-> items, totalItems |-> totalItems,
          subtotal |-> subtotal, shipping |-> shipping, total |-> total]
    ELSE [provided |-> FALSE]

\* Mutant of useCart: a missing provider yields an empty default context.
useCartDefault(context) ==
    IF ~context.provided
    THEN [threw |-> FALSE,
          value |-> [provided |-> FALSE, items |-> <<>>, totalItems |-> 0,
                     subtotal |-> 0, shipping |-> ShippingFee, total |-> ShippingFee]]
    ELSE [threw |-> FALSE, value |-> context]

\* useCart(): throws when the context is null, else returns it.
useCart(context) ==
    IF ~context.provided
    THEN [threw |-> TRUE, error |-> "useCart must be used within a CartProvider"]
    ELSE [threw |-> FALSE, value |-> context]

\* A component renders and calls useCart(), inside the provider's subtree or
\* outside of it.
UseCart ==
    /\ pc = "idle"
    /\ pc' = "useCart"
    /\ \E inProvider \in BOOLEAN :
        consumer' = [called |-> TRUE, inProvider |-> inProvider,
                     result |-> useCart(ContextValue(inProvider))]
    /\ UNCHANGED <<items, derived, queue, storage, mountLog, history, addLog>>
    /\ UNCHANGED replay

\* The consumer's render ends: with the returned context, or with the error
\* propagating out of a component that is not under the provider.
ConsumerRendered ==
    /\ pc = "useCart"
    /\ pc' = "idle"
    /\ consumer' = NotCalled
    /\ UNCHANGED <<items, derived, queue, storage, mountLog, history, addLog>>
    /\ UNCHANGED replay

\* ---------------------------------------------------------- specification
\* One handler call per event: the render and its effects follow each call.
AddItemEvent == \E product \in Products, quantity \in Quantities :
                    pc = "idle" /\ addItem(product, quantity)
RemoveItemEvent == \E productId \in ProductIds : pc = "idle" /\ removeItem(productId)
UpdateQuantityEvent == \E productId \in ProductIds, quantity \in Quantities :
                    pc = "idle" /\ updateQuantity(productId, quantity)
ClearCartEvent == pc = "idle" /\ clearCart

Next ==
    \/ LoadEffect
    \/ SaveEffect
    \/ Render
    \/ AddItemEvent
    \/ RemoveItemEvent
    \/ UpdateQuantityEvent
    \/ ClearCartEvent
    \/ Reload
    \/ UseCart
    \/ ConsumerRendered

Spec == Init /\ [][Next]_vars

\* ------------------------------------------ specification with batching
\* One event handler may call several handlers before React re-renders (the
\* tests call addItem twice in one act): up to MaxBatch updates are queued,
\* then one render applies them and one save effect follows.  The provider
\* mounts on an empty storage.
BatchProductIds == {1, 2}
BatchQuantities == {0, MaxQty}

InitBatch ==
    /\ Mounted
    /\ replay = FALSE
    /\ storage = [k \in StorageKeys |-> IF k = CartKey THEN NoEntry ELSE JsonText(JNull)]
    /\ snapshot = NoSnapshot

InEvent == pc \in {"idle", "batch"} /\ Len(queue) < MaxBatch

AddItemInEvent == \E productId \in BatchProductIds :
                      InEvent /\ addItem(Listed(productId), 1)
RemoveItemInEvent == \E productId \in BatchProductIds :
                         InEvent /\ removeItem(productId)
UpdateQuantityInEvent == \E productId \in BatchProductIds, quantity \in BatchQuantities :
                             InEvent /\ updateQuantity(productId, quantity)
ClearCartInEvent == InEvent /\ clearCart

NextBatch ==
    \/ LoadEffect
    \/ SaveEffect
    \/ Render
    \/ AddItemInEvent
    \/ RemoveItemInEvent
    \/ UpdateQuantityInEvent
    \/ ClearCartInEvent

SpecBatch == InitBatch /\ [][NextBatch]_vars

\* ------------------------------------------- specification of the Cart view
\* The Cart component under a CartProvider mounted on a stored cart, as its
\* tests set it up: every displayed line has a decrease, an increase and a
\* remove control, and the controls are the only callers of the handlers.
TestProduct(id, q) == [productId |-> id, name |-> "Test Product", price |-> 50, quantity |-> q]
CartLists ==
    { <<TestProduct(id, q)>> : id \in ProductIds, q \in 1..MaxQty }
    \cup { <<TestProduct(ids[1], q1), TestProduct(ids[2], q2)>> :
              ids \in {pair \in ProductIds \X ProductIds : pair[1] # pair[2]},
              q1 \in 1..MaxQty, q2 \in 1..MaxQty }

InitCart ==
    /\ Mounted
    /\ replay = FALSE
    /\ \E list \in CartLists :
        /\ storage = [k \in StorageKeys |-> IF k = CartKey THEN Stringify(list) ELSE JsonText(JNull)]
        /\ snapshot = SnapshotOf(list)

\* Mutant of handleQuantityChange: the new quantity is clamped to 1.
handleQuantityChangeClamped(productId, newQuantity) ==
    updateQuantity(productId, IF newQuantity < 1 THEN 1 ELSE newQuantity)

handleQuantityChange(productId, newQuantity) ==
    updateQuantity(productId, newQuantity)

\* onClick of the controls of displayed line i.
DecreaseClick == \E i \in 1..Len(items) :
                     pc = "idle" /\ handleQuantityChange(items[i].productId, items[i].quantity - 1)
IncreaseClick == \E i \in 1..Len(items) :
                     pc = "idle" /\ handleQuantityChange(items[i].productId, items[i].quantity + 1)
RemoveClick == \E i \in 1..Len(items) :
                   pc = "idle" /\ removeItem(items[i].productId)

NextCart ==
    \/ LoadEffect
    \/ SaveEffect
    \/ Render
    \/ DecreaseClick
    \/ IncreaseClick
    \/ RemoveClick

SpecCart == InitCart /\ [][NextCart]_vars

\* ----------------------------------------- specification under StrictMode
\* A CartProvider mounted under React's development StrictMode: once the
\* mount effects have run, React runs them a second time (there is no
\* cleanup to run in between) before it renders the updates they queued.
InitStrict ==
    /\ Mounted
    /\ replay = TRUE
    /\ \/ /\ storage = [k \in StorageKeys |-> IF k = CartKey THEN NoEntry ELSE JsonText(JNull)]
          /\ snapshot = NoSnapshot
       \/ \E text \in MalformedTexts :
          /\ storage = [k \in StorageKeys |-> IF k = CartKey THEN text ELSE JsonText(JNull)]
          /\ snapshot = NoSnapshot
       \/ \E list \in ExternalLists \cup CartLists :
          /\ storage = [k \in StorageKeys |-> IF k = CartKey THEN Stringify(list) ELSE JsonText(JNull)]
          /\ snapshot = SnapshotOf(list)

\* The first run of the mount effects is over: they are run again, the load
\* effect first.
StrictReplay ==
    /\ replay
    /\ mounting
    /\ pc \in {"render", "idle"}
    /\ pc' = "load"
    /\ replay' = FALSE
    /\ UNCHANGED <<items, derived, queue, storage, mountLog, history, addLog, consumer>>

\* The render of the queued updates follows the second run of the effects.
StrictRender == ~replay /\ Render

NextStrict ==
    \/ LoadEffect
    \/ SaveEffect
    \/ StrictReplay
    \/ StrictRender

SpecStrict == InitStrict /\ [][NextStrict]_vars

\* ------------------------------------------------------------------ claims
\* The render whose effects are pending applied exactly one update, queued by
\* the entry point "call".
AppliedOne(call) == pc = "save" /\ Len(applied) = 1 /\ applied[1].call = call

\* Lists equal in length, order and every defined field of a line item.
SameItems(a, b) ==
    /\ Len(a) = Len(b)
    /\ \A i \in 1..Len(a) :
        /\ \A k \in RequiredFields : a[i][k] = b[i][k]
        /\ \A k \in OptionalFields : Get(a[i], k) = Get(b[i], k)

\* The list without the lines of product id, the other lines in order.
Without(list, id) == SelectSeq(list, LAMBDA item : item.productId # id)

\* C1: once a mutation has been processed (rendered and its effects run), the
\* value stored under the cart's key is the serialization of the complete
\* current list of line items.
C1_FullOverwrite ==
    (pc = "idle" /\ ~mounting) => storage[CartKey] = Stringify(items)

C1_Witness ==
    /\ pc = "idle" /\ ~mounting
    /\ Len(items) = 2
    /\ storage[CartKey] = Stringify(items)

\* C2: a provider mounted on storage that holds the serialization of a list
\* ends initialization with items equal to that list (same order, every
\* defined field) and with the derived totals of that list.
C2_RoundTrip ==
    (pc = "idle" /\ mounting /\ snapshot.valid /\ savedCart = Stringify(snapshot.list)) =>
        /\ SameItems(items, snapshot.list)
        /\ totalItems = SumQuantity(snapshot.list)
        /\ subtotal = SumPrice(snapshot.list)
        /\ shipping = ShippingOf(subtotal)
        /\ total = subtotal + shipping

C2_Witness ==
    /\ pc = "idle" /\ mounting /\ snapshot.valid
    /\ savedCart = Stringify(snapshot.list)
    /\ Len(snapshot.list) = 2
    /\ snapshot.list[1].productId = 2
    /\ Get(snapshot.list[2], "discount") = Some(25)
    /\ "imageUrl" \in DOMAIN snapshot.list[1] /\ snapshot.list[1].imageUrl = Undefined
    /\ SameItems(items, snapshot.list)

\* C3: for every stored string that is not the serialization of a list of
\* line items (here: every such string other than the empty one),
\* initialization ends with an empty cart, has called removeItem on the
\* entry, and raises no error.
C3_Resilience ==
    (pc \in {"idle", "crashed"} /\ mounting /\ savedCart \in MalformedTexts \ {EmptyText}) =>
        /\ pc = "idle"
        /\ items = <<>>
        /\ removeCalled

\* C4: addItem for a product that has a line adds the quantity to that line
\* and leaves its other fields, the other lines and the number of lines as
\* they were; the descriptor's name, price, image and discount are ignored.
C4_AddExisting ==
    (AppliedOne("addItem") /\ HasProduct(prevItems, applied[1].product.productId)) =>
        /\ Len(items) = Len(prevItems)
        /\ \A i \in 1..Len(prevItems) :
            IF prevItems[i].productId = applied[1].product.productId
            THEN /\ items[i].quantity = prevItems[i].quantity + applied[1].quantity
                 /\ DOMAIN items[i] = DOMAIN prevItems[i]
                 /\ \A k \in DOMAIN prevItems[i] \ {"quantity"} : items[i][k] = prevItems[i][k]
            ELSE items[i] = prevItems[i]

C4_Witness ==
    /\ AppliedOne("addItem")
    /\ applied[1].product = Relisted /\ applied[1].quantity = 1
    /\ Len(prevItems) = 2
    /\ prevItems[2].productId = 1 /\ prevItems[2].name = "Cat Feeder" /\ prevItems[2].quantity = 1
    /\ items[2].name = "Cat Feeder" /\ items[2].price = 50 /\ items[2].quantity = 2

\* C5: addItem for a product that has no line appends one line built from the
\* descriptor (imageUrl from imgName) with the quantity passed; the lines
\* already present keep their positions.
C5_AddNew ==
    (AppliedOne("addItem") /\ ~HasProduct(prevItems, applied[1].product.productId)) =>
        /\ Len(items) = Len(prevItems) + 1
        /\ SubSeq(items, 1, Len(prevItems)) = prevItems
        /\ LET new == items[Len(items)]
               product == applied[1].product IN
           /\ DOMAIN new = ItemFields
           /\ new.productId = product.productId
           /\ new.name = product.name
           /\ new.price = product.price
           /\ new.discount = product.discount
           /\ new.imageUrl = product.imgName
           /\ new.quantity = applied[1].quantity

C5_Witness ==
    /\ AppliedOne("addItem")
    /\ applied[1].product = Relisted /\ applied[1].quantity = 2
    /\ Len(prevItems) = 1 /\ prevItems[1].productId = 2
    /\ Len(items) = 2 /\ items[1] = prevItems[1]
    /\ items[2].imageUrl = Some("feeder.jpg") /\ items[2].quantity = 2

\* C6: in every state no two line items have the same productId.
C6_UniqueProductIds ==
    \A i, j \in 1..Len(items) : i # j => items[i].productId # items[j].productId

\* C7: no line item with quantity <= 0 exists: an operation that brings the
\* quantity of a product's line to zero or below leaves no such line.
C7_PositiveQuantities ==
    (pc = "save" /\ Len(applied) = 1 /\ applied[1].call = "addItem") =>
        \A i \in 1..Len(items) :
            items[i].productId = applied[1].product.productId => items[i].quantity >= 1

\* C8: updateQuantity(id, q) with q <= 0 produces the state removeItem(id)
\* produces: the lines of id are gone and nothing else differs.
C8_NonPositiveQuantityRemoves ==
    (AppliedOne("updateQuantity") /\ applied[1].quantity <= 0) =>
        /\ items = removeItemUpdater(prevItems, applied[1].productId)
        /\ items = Without(prevItems, applied[1].productId)
        /\ ~HasProduct(items, applied[1].productId)

C8_Witness ==
    /\ AppliedOne("updateQuantity")
    /\ applied[1].quantity = 0
    /\ Len(prevItems) = 2 /\ prevItems[1].productId = applied[1].productId
    /\ items = <<prevItems[2]>>

\* C9: updateQuantity(id, q) with q > 0 replaces the quantity of the line of
\* id by q, leaving its other fields and its position; with no such line the
\* list is unchanged.
C9_UpdateQuantity ==
    (AppliedOne("updateQuantity") /\ applied[1].quantity > 0) =>
        /\ Len(items) = Len(prevItems)
        /\ \A i \in 1..Len(prevItems) :
            IF prevItems[i].productId = applied[1].productId
            THEN /\ items[i].quantity = applied[1].quantity
                 /\ DOMAIN items[i] = DOMAIN prevItems[i]
                 /\ \A k \in DOMAIN prevItems[i] \ {"quantity"} : items[i][k] = prevItems[i][k]
            ELSE items[i] = prevItems[i]
        /\ ~HasProduct(prevItems, applied[1].productId) => items = prevItems

C9_Witness ==
    /\ AppliedOne("updateQuantity")
    /\ applied[1].quantity = 1
    /\ Len(prevItems) = 2
    /\ prevItems[1].productId = applied[1].productId /\ prevItems[1].quantity = 2
    /\ items[1].quantity = 1 /\ items[1].name = prevItems[1].name
    /\ items[2] = prevItems[2]

\* C10: removeItem(id) removes the line of id if there is one and raises no
\* error; applying it again, or applying it to a cart without id, changes
\* nothing.
C10_RemoveIdempotent ==
    /\ pc = "crashed" => mounting
    /\ AppliedOne("removeItem") =>
        /\ items = Without(prevItems, applied[1].productId)
        /\ ~HasProduct(items, applied[1].productId)
        /\ removeItemUpdater(items, applied[1].productId) = items
        /\ ~HasProduct(prevItems, applied[1].productId) => items = prevItems

C10_Witness ==
    /\ AppliedOne("removeItem")
    /\ Len(prevItems) = 2
    /\ prevItems[1].productId = applied[1].productId
    /\ items = <<prevItems[2]>>
    /\ removeItemUpdater(items, applied[1].productId) = items

\* C11: clearCart leaves no line item whatever the cart held, and once its
\* effects have run the stored snapshot is the serialization of the empty
\* list.
C11_ClearCart ==
    [][AppliedOne("clearCart") =>
          /\ items = <<>>
          /\ pc' = "idle" => (items' = <<>> /\ storage'[CartKey] = Stringify(<<>>))]_vars

C11_Witness ==
    /\ AppliedOne("clearCart")
    /\ Len(prevItems) = 2
    /\ items = <<>>
    /\ storage[CartKey] = Stringify(prevItems)

\* The price of a line as the data model defines it: quantity times the unit
\* price, reduced by the discount when the line has one.
LineTotal(item) ==
    IF "discount" \in DOMAIN item /\ item.discount # Undefined
    THEN item.quantity * ((item.price * (100 - item.discount[1])) \div 100)
    ELSE item.quantity * item.price

RECURSIVE SumOver(_, _, _)
\* The sum of Op(list[i]) for i in 1..n, with Op one of "quantity", "line".
SumOver(list, n, what) ==
    IF n = 0 THEN 0
    ELSE SumOver(list, n - 1, what)
         + (IF what = "quantity" THEN list[n].quantity ELSE LineTotal(list[n]))

\* C12: in every state the exposed totalItems is the sum of the quantities
\* of the current line items and the exposed subtotal the sum of their line
\* totals; one line of price 100, discount 0.25 and quantity 2 gives 150.
C12_DerivedTotals ==
    /\ totalItems = SumOver(items, Len(items), "quantity")
    /\ subtotal = SumOver(items, Len(items), "line")
    /\ (/\ Len(items) = 1
        /\ items[1].price = 100
        /\ Get(items[1], "discount") = Some(25)
        /\ items[1].quantity = 2) => subtotal = 150

C12_Witness ==
    /\ Len(items) = 1
    /\ items[1].price = 100
    /\ Get(items[1], "discount") = Some(25)
    /\ items[1].quantity = 2
    /\ subtotal = 150
    /\ totalItems = 2

\* C13: shipping is 0 when subtotal >= 100 and 25 otherwise, the boundary
\* 100 included, and total is subtotal + shipping.
C13_Shipping ==
    /\ shipping = (IF subtotal >= 100 THEN 0 ELSE 25)
    /\ total = subtotal + shipping

C13_Witness ==
    /\ subtotal = 100
    /\ shipping = 0
    /\ total = 100
    /\ items # <<>>

\* C14 as stated: after clearCart the totals read totalItems = 0,
\* subtotal = 0 and total = 0.
C14_ClearTotalZero ==
    AppliedOne("clearCart") => (totalItems = 0 /\ subtotal = 0 /\ total = 0)

\* C14 amended: after clearCart the totals read totalItems = 0,
\* subtotal = 0, shipping = 25 and total = 25.
C14_ClearTotals ==
    AppliedOne("clearCart") =>
        (totalItems = 0 /\ subtotal = 0 /\ shipping = 25 /\ total = 25)

C14_Witness ==
    /\ AppliedOne("clearCart")
    /\ prevItems # <<>>
    /\ SumOver(prevItems, Len(prevItems), "line") >= 100
    /\ total = 25

\* C15: with no entry under the cart's key, the cart after initialization
\* has no line items, totalItems = 0, subtotal = 0, shipping = 25 and
\* total = 25.
C15_NoSnapshot ==
    (pc = "idle" /\ mounting /\ savedCart = NoEntry) =>
        (items = <<>> /\ totalItems = 0 /\ subtotal = 0 /\ shipping = 25 /\ total = 25)

C15_Witness ==
    /\ pc = "idle" /\ mounting /\ savedCart = NoEntry
    /\ ~snapshot.valid
    /\ items = <<>> /\ total = 25


\* ------------------------------------------------------------------- C16
\* C16: starting from an empty cart, after any sequence of addItem calls
\* (and nothing else) the number of line items equals the number of
\* distinct productIds passed and totalItems equals the sum of all the
\* quantities passed.  Read when the calls made so far have been rendered.
C16_AddSequence ==
    (addLog.on /\ pc \in {"save", "idle"}) =>
        /\ Len(items) = Cardinality(addLog.ids)
        /\ totalItems = addLog.sum
        /\ \A id \in addLog.ids : HasProduct(items, id)

\* Two products added, one of them a second time, three units in all.
C16_Witness ==
    /\ addLog.on
    /\ AppliedOne("addItem")
    /\ HasProduct(prevItems, applied[1].product.productId)
    /\ Cardinality(addLog.ids) = 2
    /\ addLog.sum = 3
    /\ Len(items) = 2
    /\ totalItems = 3
\* ------------------------------------------------------------------- C19
\* C19: useCart called by a consumer with no enclosing CartProvider throws
\* 'useCart must be used within a CartProvider' and returns no context at
\* all; called inside a provider it returns the provider's context (the
\* current items and totals) without throwing.
C19_UseCartGuard ==
    pc = "useCart" =>
        /\ consumer.called
        /\ IF consumer.inProvider
           THEN /\ ~consumer.result.threw
                /\ consumer.result.value.provided
                /\ consumer.result.value.items = items
                /\ consumer.result.value.totalItems = totalItems
                /\ consumer.result.value.subtotal = subtotal
                /\ consumer.result.value.shipping = shipping
                /\ consumer.result.value.total = total
           ELSE /\ consumer.result.threw
                /\ consumer.result.error = "useCart must be used within a CartProvider"
                /\ DOMAIN consumer.result = {"threw", "error"}

\* A consumer outside any provider called useCart while a provider elsewhere
\* holds a non-empty cart.
C19_Witness ==
    /\ pc = "useCart"
    /\ consumer.called
    /\ ~consumer.inProvider
    /\ consumer.result.threw
    /\ items # <<>>
\* ------------------------------------------------------------------- C17
RECURSIVE OneAtATime(_, _)
\* The list reached from list when the updates are issued one at a time, a
\* render after each: every render applies the one update it finds queued.
OneAtATime(list, updates) ==
    IF updates = <<>> THEN list
    ELSE OneAtATime(ItemsOf(ApplyUpdate(ItemsValue(list), Head(updates))), Tail(updates))

\* C17: mutations issued in one batch before any re-render apply in the
\* order issued, each to the result of the one before it, none lost: the
\* rendered list equals the list obtained by issuing them one at a time
\* with a re-render between them.
C17_BatchOrder ==
    (pc = "save" /\ Len(applied) >= 2) => items = OneAtATime(prevItems, applied)

\* Two addItem calls for the same product in one event: the second adds to
\* the line the first created.
C17_Witness ==
    /\ pc = "save"
    /\ Len(applied) = 2
    /\ applied[1].call = "addItem"
    /\ applied[2].call = "addItem"
    /\ applied[1].product.productId = applied[2].product.productId
    /\ prevItems = <<>>
    /\ Len(items) = 1
    /\ items[1].quantity = 2
\* ------------------------------------------------------------------- C18
\* C18: each mutation's persistence write happens before the next mutation
\* is accepted: for consecutive mutations m1 then m2, by the time m2 has
\* been applied to the cart state the storage has been written with the
\* snapshot that reflects m1 and not m2.  Stated where a render has just
\* applied several mutations and its save effect has not run yet: the
\* storage holds the list as it was after all of them but the last.
C18_WriteBeforeNextMutation ==
    (pc = "save" /\ Len(applied) >= 2) =>
        storage[CartKey] =
            Stringify(OneAtATime(prevItems, SubSeq(applied, 1, Len(applied) - 1)))
\* ------------------------------------------------------------------- C20
\* A stored list that validation or normalization would change: a line with
\* quantity <= 0, two lines with one productId, or a field CartItem lacks.
Irregular(list) ==
    \/ \E i \in 1..Len(list) : list[i].quantity <= 0
    \/ \E i, j \in 1..Len(list) : i # j /\ list[i].productId = list[j].productId
    \/ \E i \in 1..Len(list) : ~(DOMAIN list[i] \subseteq ItemFields)

\* C20: a snapshot that deserializes successfully is adopted verbatim, with
\* no validation or normalization: lines with negative or zero quantity,
\* duplicate productIds or unknown fields are kept exactly as stored, line
\* by line and key by key, and the derived totals are computed from them.
C20_AdoptVerbatim ==
    (pc = "idle" /\ mounting /\ snapshot.valid /\ Irregular(snapshot.list)
        /\ savedCart = Stringify(snapshot.list)) =>
        /\ Len(items) = Len(snapshot.list)
        /\ \A i \in 1..Len(items) :
            /\ DefinedKeys(items[i]) = DefinedKeys(snapshot.list[i])
            /\ \A k \in DefinedKeys(items[i]) : items[i][k] = snapshot.list[i][k]
        /\ Stringify(items) = savedCart
        /\ storage[CartKey] = savedCart
        /\ totalItems = SumOver(snapshot.list, Len(snapshot.list), "quantity")
        /\ subtotal = SumOver(snapshot.list, Len(snapshot.list), "line")
        /\ total = subtotal + shipping

\* The adopted cart has two lines of product 1, of quantity 0 and -1, the
\* second with a field sku: totalItems is -1 and subtotal -30.
C20_Witness ==
    /\ pc = "idle" /\ mounting /\ snapshot.valid
    /\ savedCart = Stringify(snapshot.list)
    /\ Len(items) = 2
    /\ items[1].productId = items[2].productId
    /\ items[1].quantity = 0
    /\ items[2].quantity = -1
    /\ "sku" \in DOMAIN items[2] /\ items[2].sku = "SF001"
    /\ totalItems = -1
    /\ subtotal = -30
    /\ total = -5
\* ------------------------------------------------------------------- C21
\* C21: addItem(product, q) with q <= 0 raises no error and is not rejected:
\* the render that follows succeeds, and for a productId not in the cart a
\* line with quantity q is appended, while for a productId in the cart q is
\* added to the line's quantity and the line stays, also when the result
\* is <= 0.
C21_AddNonPositive ==
    [][(pc = "batch" /\ Len(queue) = 1 /\ queue[1].call = "addItem" /\ queue[1].quantity <= 0) =>
          /\ pc' = "save"
          /\ LET id == queue[1].product.productId
                 q == queue[1].quantity IN
             IF HasProduct(items, id)
             THEN /\ Len(items') = Len(items)
                  /\ \A i \in 1..Len(items) :
                      items[i].productId = id =>
                          /\ items'[i].productId = id
                          /\ items'[i].quantity = items[i].quantity + q
             ELSE /\ Len(items') = Len(items) + 1
                  /\ items'[Len(items')].productId = id
                  /\ items'[Len(items')].quantity = q]_vars

\* addItem(p, -1) on a line of quantity 1: the line is still there, with
\* quantity 0.
C21_Witness ==
    /\ AppliedOne("addItem")
    /\ applied[1].quantity = -1
    /\ \E i \in 1..Len(prevItems) :
        /\ prevItems[i].productId = applied[1].product.productId
        /\ prevItems[i].quantity = 1
        /\ Len(items) = Len(prevItems)
        /\ items[i].productId = prevItems[i].productId
        /\ items[i].quantity = 0
\* ------------------------------------------------------------------- C22
\* The productId a queued update is addressed to.
Addressed(u) == IF u.call = "addItem" THEN u.product.productId ELSE u.productId

\* C22: addItem for p, removeItem(p) and updateQuantity(p, q) leave the
\* lines whose productId is not p as they were: the same records with the
\* same fields and values, in the same relative order.
C22_OtherLinesUntouched ==
    (pc = "save" /\ Len(applied) = 1
        /\ applied[1].call \in {"addItem", "removeItem", "updateQuantity"}) =>
        Without(items, Addressed(applied[1])) = Without(prevItems, Addressed(applied[1]))

\* updateQuantity on the second of two lines changed its quantity and left
\* the first line, of another product, as it was.
C22_Witness ==
    /\ AppliedOne("updateQuantity")
    /\ applied[1].quantity > 0
    /\ Len(prevItems) = 2
    /\ prevItems[1].productId # applied[1].productId
    /\ prevItems[2].productId = applied[1].productId
    /\ prevItems[1].quantity # applied[1].quantity
    /\ items[1] = prevItems[1]
    /\ items[2].quantity = applied[1].quantity
    /\ items[2].quantity # prevItems[2].quantity
\* ------------------------------------------------------------------- C23
\* C23: the provider reads, writes and deletes storage under the key
\* 'octocat-cart' only: what the load effect read is the entry of that key,
\* and no initialization or mutation changes or removes the value stored
\* under another key.
C23_SingleKey ==
    /\ CartKey = "octocat-cart"
    /\ DOMAIN storage = StorageKeys
    /\ storage[OtherKey] = JsonText(JNull)
    /\ (mounting /\ pc = "save" /\ applied = <<>> /\ ~removeCalled) =>
           savedCart = storage[CartKey]

\* A malformed entry was deleted and the empty list written in its place; the
\* other key still holds its value.
C23_Witness ==
    /\ pc = "idle" /\ mounting /\ removeCalled
    /\ savedCart = InvalidText
    /\ storage[CartKey] = Stringify(<<>>)
    /\ storage[OtherKey] = JsonText(JNull)
\* ------------------------------------------------------------------- C24
\* The position of the line of product id in a list that has one.
LineOf(list, id) == CHOOSE i \in 1..Len(list) : list[i].productId = id

\* C24: in the Cart view, for a displayed line of quantity n, the increase
\* control calls updateQuantity(productId, n + 1) and the persisted quantity
\* becomes n + 1; the decrease control calls updateQuantity(productId, n - 1)
\* and the persisted quantity becomes n - 1 when n > 1, while the line is
\* removed when n = 1; the remove control removes the line, and the empty
\* list is persisted when it was the only line.
C24_CartControls ==
    [][(pc = "save" /\ Len(applied) = 1 /\ applied[1].call \in {"updateQuantity", "removeItem"}) =>
          LET u == applied[1]
              p == u.productId IN
          /\ HasProduct(prevItems, p)
          /\ LET i == LineOf(prevItems, p)
                 n == prevItems[i].quantity IN
             IF u.call = "removeItem"
             THEN /\ items = Without(prevItems, p)
                  /\ Len(prevItems) = 1 => storage'[CartKey] = Stringify(<<>>)
             ELSE /\ u.quantity \in {n + 1, n - 1}
                  /\ IF u.quantity = n + 1 \/ n > 1
                     THEN /\ Len(items) = Len(prevItems)
                          /\ items[i].productId = p
                          /\ items[i].quantity = u.quantity
                     ELSE items = Without(prevItems, p)
          /\ storage'[CartKey] = Stringify(items)]_vars

\* The decrease control of the first of two lines, of quantity 1, was
\* clicked: the line is gone.
C24_Witness ==
    /\ AppliedOne("updateQuantity")
    /\ applied[1].quantity = 0
    /\ Len(prevItems) = 2
    /\ prevItems[1].name = "Test Product"
    /\ prevItems[1].productId = applied[1].productId
    /\ prevItems[1].quantity = 1
    /\ items = <<prevItems[2]>>
\* ------------------------------------------------------------------- C25
\* C25: once initialization has settled (the mount effects and the render
\* they cause have run, or that render has thrown), whatever the storage
\* held at mount, the entry under the cart's key exists and is the
\* serialization of the current items; after a missing or malformed entry it
\* is the serialization of the empty list, not an absent entry.
C25_SettledStorage ==
    (mounting /\ pc \in {"idle", "crashed"}) =>
        /\ storage[CartKey] # NoEntry
        /\ storage[CartKey] = Stringify(items)
        /\ (savedCart \in {NoEntry} \cup MalformedTexts) => storage[CartKey] = Stringify(<<>>)

\* The entry was invalid JSON: it was reported and deleted, and the entry
\* exists again, holding the empty list.
C25_Witness ==
    /\ mounting /\ pc = "idle"
    /\ savedCart = InvalidText
    /\ errorLogged
    /\ items = <<>>
    /\ storage[CartKey] # NoEntry
    /\ storage[CartKey] = Stringify(items)
\* ------------------------------------------------------------------- C26
\* C26: during initialization from a valid non-empty snapshot the persisted
\* entry holds that snapshot's line items at every step, from the mount to
\* the end of initialization: storage is never overwritten with the empty
\* list or any other list.
C26_SnapshotKeptDuringInit ==
    (mounting /\ snapshot.valid /\ snapshot.list # <<>>) =>
        storage[CartKey] = Stringify(snapshot.list)
\* ------------------------------------------------------------------- C27
\* C27: initialization is idempotent: when the mount effects (load, then
\* save) are run a second time before the restored state has been rendered,
\* the cart still ends holding the line items of the valid snapshot it was
\* mounted on, and storage still holds that snapshot.
C27_IdempotentInit ==
    (mounting /\ ~replay /\ pc = "idle" /\ snapshot.valid) =>
        /\ SameItems(items, snapshot.list)
        /\ storage[CartKey] = Stringify(snapshot.list)

====
